---- MODULE Spec2Model ----
(***************************************************************************)
(* Forecast-accuracy metrics of src/metrics.py: the pointwise errors, their *)
(* means, and the nan_ignoring decorator.                                   *)
(*                                                                          *)
(* The module is a library of pure functions.  A state of the model is one  *)
(* call: the function called, the arguments the caller bound, and what the  *)
(* call produced (an array, a scalar, or an exception).                     *)
(*                                                                          *)
(* Numbers are binary floating-point values with NaN and the infinities,    *)
(* rounded to nearest-even after every operation as numpy's float64 is; the *)
(* significand has Precision bits (53 in float64) and the exponent range is *)
(* FracBits + MaxShift wide, so that rounding and overflow are part of the  *)
(* model.  The sign of zero is not kept: every function here returns an     *)
(* absolute value, a square or a mean of those, so no result depends on it. *)
(***************************************************************************)
EXTENDS Integers, Sequences, FiniteSets

\* --------------------------------------------------------------- bounds
\* Bits of the significand.
Precision == 4
\* A finite value is an integer number of units of 2^-FracBits.
FracBits == 8
\* The largest finite value is (2^Precision - 1) * 2^MaxShift units.
MaxShift == 9
\* Longest y_true / y_estimated drawn.
MaxLen == 2

Unit == 2 ^ FracBits
MantLimit == 2 ^ Precision
MaxFinite == (MantLimit - 1) * (2 ^ MaxShift)

\* ------------------------------------------------- floating-point values
NaN == [cls |-> "nan", v |-> 0]
PosInf == [cls |-> "inf", v |-> 1]
NegInf == [cls |-> "inf", v |-> -1]
Fin(n) == [cls |-> "fin", v |-> n]
Zero == Fin(0)

Abs(n) == IF n < 0 THEN -n ELSE n
Sign(n) == IF n < 0 THEN -1 ELSE 1

\* The value p/d (in units, d > 0) rounded to the nearest representable
\* value, ties to the even significand; beyond the range it is an infinity.
RoundRat(p, d) ==
  LET a == Abs(p)
      over == 2 * a >= (2 * MaxFinite + 2 ^ MaxShift) * d
      s == CHOOSE t \in 0..MaxShift :
             /\ a < MantLimit * (2 ^ t) * d
             /\ (t = 0 \/ a >= MantLimit * (2 ^ (t - 1)) * d)
      q == d * (2 ^ s)
      m == a \div q
      r == a - m * q
      up == 2 * r > q \/ (2 * r = q /\ m % 2 = 1)
  IN IF over THEN [cls |-> "inf", v |-> Sign(p)]
     ELSE Fin(Sign(p) * (IF up THEN m + 1 ELSE m) * (2 ^ s))

\* The float a literal p/q denotes.
Lit(p, q) == RoundRat(p * Unit, q)

IsNaN(x) == x.cls = "nan"
IsInf(x) == x.cls = "inf"
IsFinite(x) == x.cls = "fin"
IsZero(x) == x.cls = "fin" /\ x.v = 0

FNeg(x) == IF x.cls = "nan" THEN NaN ELSE [cls |-> x.cls, v |-> -x.v]
FAbs(x) == IF x.cls = "nan" THEN NaN ELSE [cls |-> x.cls, v |-> Abs(x.v)]

FAdd(x, y) ==
  CASE IsNaN(x) \/ IsNaN(y) -> NaN
    [] IsInf(x) /\ IsInf(y) -> IF x.v = y.v THEN x ELSE NaN
    [] IsInf(x) -> x
    [] IsInf(y) -> y
    [] OTHER -> RoundRat(x.v + y.v, 1)

FSub(x, y) == FAdd(x, FNeg(y))

FMul(x, y) ==
  CASE IsNaN(x) \/ IsNaN(y) -> NaN
    [] IsInf(x) /\ IsZero(y) -> NaN
    [] IsZero(x) /\ IsInf(y) -> NaN
    [] IsInf(x) \/ IsInf(y) -> [cls |-> "inf", v |-> Sign(x.v) * Sign(y.v)]
    [] OTHER -> RoundRat(x.v * y.v, Unit)

FDiv(x, y) ==
  CASE IsNaN(x) \/ IsNaN(y) -> NaN
    [] IsInf(x) /\ IsInf(y) -> NaN
    [] IsInf(x) -> [cls |-> "inf", v |-> Sign(x.v) * Sign(y.v)]
    [] IsInf(y) -> Zero
    [] IsZero(y) -> IF IsZero(x) THEN NaN ELSE [cls |-> "inf", v |-> Sign(x.v)]
    [] OTHER -> RoundRat(Sign(y.v) * x.v * Unit, Abs(y.v))

\* ------------------------------------------------------ arrays, outcomes
\* An argument as the caller passes it: a Python list or a numpy array.
List(s) == [kind |-> "list", data |-> s]
NdArray(s) == [kind |-> "ndarray", data |-> s]
\* An argument the caller did not pass.
Absent == [kind |-> "absent", data |-> <<>>]

\* What evaluating an expression produces: an array, a scalar, or an
\* exception that unwinds the call.
Array(s) == [tag |-> "array", arr |-> s, val |-> NaN, exc |-> ""]
Scalar(x) == [tag |-> "scalar", arr |-> <<>>, val |-> x, exc |-> ""]
Raise(e) == [tag |-> "raise", arr |-> <<>>, val |-> NaN, exc |-> e]
NoCall == [tag |-> "none", arr |-> <<>>, val |-> NaN, exc |-> ""]

IsRaise(r) == r.tag = "raise"

\* np.asarray: a list becomes an array of the same elements.
asarray(a) == Array(a.data)

\* The shape two one-dimensional operands broadcast to, -1 when they do not.
BroadcastLen(n, m) ==
  IF n = m THEN n ELSE IF n = 1 THEN m ELSE IF m = 1 THEN n ELSE -1

\* The scalar operation of a numpy ufunc.
Apply1(u, x) ==
  CASE u = "absolute" -> FAbs(x)
    [] u = "square" -> FMul(x, x)
    [] u = "isnan" -> IsNaN(x)
    [] u = "logical_not" -> ~x

Apply2(u, x, y) ==
  CASE u = "subtract" -> FSub(x, y)
    [] u = "add" -> FAdd(x, y)
    [] u = "true_divide" -> FDiv(x, y)
    [] u = "logical_or" -> (x \/ y)

\* A binary ufunc on two arrays: elementwise after broadcasting, ValueError
\* ("operands could not be broadcast together") when the shapes do not fit.
\* An operand that raised unwinds first, the left one before the right.  A
\* scalar operand broadcasts as a one-element array does.
Ufunc2(u, A, B) ==
  IF IsRaise(A) THEN A
  ELSE IF IsRaise(B) THEN B
  ELSE LET a == IF A.tag = "scalar" THEN <<A.val>> ELSE A.arr
           b == IF B.tag = "scalar" THEN <<B.val>> ELSE B.arr
           n == Len(a)
           m == Len(b)
           k == BroadcastLen(n, m)
       IN IF k < 0 THEN Raise("ValueError")
          ELSE Array([i \in 1..k |->
                 Apply2(u, a[IF n = k THEN i ELSE 1], b[IF m = k THEN i ELSE 1])])

\* A unary ufunc.
Ufunc1(u, A) ==
  IF IsRaise(A) THEN A ELSE Array([i \in 1..Len(A.arr) |-> Apply1(u, A.arr[i])])

\* The running sum numpy's add.reduce makes of fewer than 8 elements.
RECURSIVE SumTo(_, _)
SumTo(s, n) == IF n = 0 THEN Zero ELSE FAdd(SumTo(s, n - 1), s[n])

\* np.mean: the sum divided by the count; the mean of an empty array is NaN
\* (0.0 / 0, with a RuntimeWarning and no exception).
np_mean(A) ==
  IF IsRaise(A) THEN A
  ELSE Scalar(FDiv(SumTo(A.arr, Len(A.arr)), Fin(Len(A.arr) * Unit)))

\* a[start:] and a[:stop] of Python, for any integer start and stop.
SliceFrom(s, start) ==
  LET n == Len(s)
      b == IF start < 0 THEN (IF n + start < 0 THEN 0 ELSE n + start)
           ELSE (IF start > n THEN n ELSE start)
  IN SubSeq(s, b + 1, n)

SliceTo(s, stop) ==
  LET n == Len(s)
      e == IF stop < 0 THEN (IF n + stop < 0 THEN 0 ELSE n + stop)
           ELSE (IF stop > n THEN n ELSE stop)
  IN SubSeq(s, 1, e)

\* ------------------------------------------------------ pointwise errors
squared_error(y_true, y_estimated) ==
  Ufunc1("square", Ufunc2("subtract", asarray(y_true), asarray(y_estimated)))

absolute_error(y_true, y_estimated) ==
  Ufunc1("absolute", Ufunc2("subtract", asarray(y_true), asarray(y_estimated)))

\* A variant that divides by the estimate instead of the true value.
absolute_percentage_error_of_estimate(y_true, y_estimated) ==
  LET d == Ufunc2("subtract", asarray(y_true), asarray(y_estimated))
  IN Ufunc1("absolute", Ufunc2("true_divide", d, asarray(y_estimated)))

absolute_percentage_error(y_true, y_estimated) ==
  LET d == Ufunc2("subtract", asarray(y_true), asarray(y_estimated))
  IN Ufunc1("absolute", Ufunc2("true_divide", d, asarray(y_true)))

\* A variant that divides by abs(true + est) instead of abs(true) + abs(est).
adjusted_absolute_percentage_error_abs_of_sum(y_true, y_estimated) ==
  LET d == Ufunc2("subtract", asarray(y_true), asarray(y_estimated))
      s == Ufunc1("absolute", Ufunc2("add", asarray(y_true), asarray(y_estimated)))
  IN Ufunc1("absolute", Ufunc2("true_divide", d, s))

adjusted_absolute_percentage_error(y_true, y_estimated) ==
  LET d == Ufunc2("subtract", asarray(y_true), asarray(y_estimated))
      s == Ufunc2("add", Ufunc1("absolute", asarray(y_true)),
                         Ufunc1("absolute", asarray(y_estimated)))
  IN Ufunc1("absolute", Ufunc2("true_divide", d, s))

\* A variant that scales by the mean squared error of the naive forecast.
absolute_scaled_error_by_squared_naive(y_train, y_true, y_estimated, seasonal_period) ==
  LET train == asarray(y_train).arr
      mse_naive_forecast ==
        np_mean(squared_error(NdArray(SliceFrom(train, seasonal_period)),
                              NdArray(SliceTo(train, -seasonal_period))))
      ae_forecast == absolute_error(y_true, y_estimated)
  IN IF IsRaise(mse_naive_forecast) THEN mse_naive_forecast
     ELSE Ufunc2("true_divide", ae_forecast, mse_naive_forecast)

absolute_scaled_error(y_train, y_true, y_estimated, seasonal_period) ==
  LET train == asarray(y_train).arr
      mae_naive_forecast ==
        np_mean(absolute_error(NdArray(SliceFrom(train, seasonal_period)),
                               NdArray(SliceTo(train, -seasonal_period))))
      ae_forecast == absolute_error(y_true, y_estimated)
  IN IF IsRaise(mae_naive_forecast) THEN mae_naive_forecast
     ELSE Ufunc2("true_divide", ae_forecast, mae_naive_forecast)

\* ------------------------------------------------------------ mean errors
mean_squared_error(y_true, y_estimated) ==
  np_mean(squared_error(y_true, y_estimated))

\* A variant that averages with np.nanmean: NaN elements are left out.
mean_absolute_error_nanmean(y_true, y_estimated) ==
  LET e == absolute_error(y_true, y_estimated)
  IN IF IsRaise(e) THEN e
     ELSE np_mean(Array(SelectSeq(e.arr, LAMBDA x : ~IsNaN(x))))

mean_absolute_error(y_true, y_estimated) ==
  np_mean(absolute_error(y_true, y_estimated))

mean_absolute_percentage_error(y_true, y_estimated) ==
  np_mean(absolute_percentage_error(y_true, y_estimated))

mean_adjusted_absolute_percentage_error(y_true, y_estimated) ==
  np_mean(adjusted_absolute_percentage_error(y_true, y_estimated))

\* A variant that does not forward seasonal_period: the default 1 applies.
mean_absolute_scaled_error_default_period(y_train, y_true, y_estimated, seasonal_period) ==
  np_mean(absolute_scaled_error(y_train, y_true, y_estimated, 1))

mean_absolute_scaled_error(y_train, y_true, y_estimated, seasonal_period) ==
  np_mean(absolute_scaled_error(y_train, y_true, y_estimated, seasonal_period))


\* ------------------------------------------------------------ nan_ignoring
\* a[mask] for a boolean array mask: a list cannot be indexed by an array
\* (TypeError), an array only by a mask of its own length (IndexError).
RECURSIVE Compress(_, _, _)
Compress(s, keep, n) ==
  IF n = 0 THEN <<>>
  ELSE IF keep[n] THEN Append(Compress(s, keep, n - 1), s[n])
  ELSE Compress(s, keep, n - 1)

BoolIndex(a, keep) ==
  IF a.kind # "ndarray" THEN Raise("TypeError")
  ELSE IF Len(a.data) # Len(keep) THEN Raise("IndexError")
  ELSE Array(Compress(a.data, keep, Len(keep)))

\* The names a call binds against the parameters of the function called:
\* an unexpected keyword or a missing required argument is a TypeError.
Binds(given, params, required) == given \subseteq params /\ required \subseteq given

TwoArgs == {"y_true", "y_estimated"}
ScaledArgs == {"y_train", "y_true", "y_estimated", "seasonal_period"}

Negated(r) == IF r.tag = "scalar" THEN Scalar(FNeg(r.val)) ELSE r

\* The parameters of the function that nan_ignoring decorates under the name
\* f, and those without a default.
DecoratedParams(f) ==
  IF f = "mean_absolute_scaled_error_ignoring_nans" THEN ScaledArgs ELSE TwoArgs
DecoratedRequired(f) == DecoratedParams(f) \ {"seasonal_period"}

\* The decorated function f called as f(**kwargs).
Decorated(f, kwargs) ==
  IF ~Binds(kwargs.names, DecoratedParams(f), DecoratedRequired(f))
  THEN Raise("TypeError")
  ELSE CASE f = "mean_squared_error_ignoring_nans" ->
              mean_squared_error(kwargs.y_true, kwargs.y_estimated)
         [] f = "mean_absolute_error_ignoring_nans" ->
              mean_absolute_error(kwargs.y_true, kwargs.y_estimated)
         [] f = "mean_absolute_percentage_error_ignoring_nans" ->
              mean_absolute_percentage_error(kwargs.y_true, kwargs.y_estimated)
         [] f = "neg_mean_absolute_percentage_error_ignoring_nans" ->
              Negated(mean_absolute_percentage_error(kwargs.y_true, kwargs.y_estimated))
         [] f = "mean_adjusted_absolute_percentage_error_ignoring_nans" ->
              mean_adjusted_absolute_percentage_error(kwargs.y_true, kwargs.y_estimated)
         [] f = "mean_absolute_scaled_error_ignoring_nans" ->
              mean_absolute_scaled_error(kwargs.y_train, kwargs.y_true,
                                         kwargs.y_estimated, kwargs.seasonal_period)

\* nan_wrapper, the function nan_ignoring(metric) returns, called with the
\* argument names in given: its parameters are y_true and y_estimated, and it
\* calls metric with the two filtered arrays and nothing else.
nan_wrapper(metric, given, y_true, y_estimated) ==
  IF ~Binds(given, TwoArgs, TwoArgs) THEN Raise("TypeError")
  ELSE
  LET nan_mask == Ufunc2("logical_or", Ufunc1("isnan", asarray(y_true)),
                                       Ufunc1("isnan", asarray(y_estimated)))
      keep == Ufunc1("logical_not", nan_mask)
      kw_true == IF IsRaise(keep) THEN keep ELSE BoolIndex(y_true, keep.arr)
      kw_estimated == IF IsRaise(keep) THEN keep ELSE BoolIndex(y_estimated, keep.arr)
  IN IF IsRaise(kw_true) THEN kw_true
     ELSE IF IsRaise(kw_estimated) THEN kw_estimated
     ELSE Decorated(metric, [names |-> TwoArgs, y_train |-> Absent,
                             y_true |-> NdArray(kw_true.arr),
                             y_estimated |-> NdArray(kw_estimated.arr),
                             seasonal_period |-> 1])

mean_squared_error_ignoring_nans(y_true, y_estimated) ==
  nan_wrapper("mean_squared_error_ignoring_nans", TwoArgs, y_true, y_estimated)

mean_absolute_error_ignoring_nans(y_true, y_estimated) ==
  nan_wrapper("mean_absolute_error_ignoring_nans", TwoArgs, y_true, y_estimated)

mean_absolute_percentage_error_ignoring_nans(y_true, y_estimated) ==
  nan_wrapper("mean_absolute_percentage_error_ignoring_nans", TwoArgs,
              y_true, y_estimated)

neg_mean_absolute_percentage_error_ignoring_nans(y_true, y_estimated) ==
  nan_wrapper("neg_mean_absolute_percentage_error_ignoring_nans", TwoArgs,
              y_true, y_estimated)

mean_adjusted_absolute_percentage_error_ignoring_nans(y_true, y_estimated) ==
  nan_wrapper("mean_adjusted_absolute_percentage_error_ignoring_nans", TwoArgs,
              y_true, y_estimated)

\* The name mean_absolute_scaled_error_ignoring_nans is bound to nan_wrapper
\* too: y_train and seasonal_period are no parameters of it.
mean_absolute_scaled_error_ignoring_nans(given, y_train, y_true, y_estimated, seasonal_period) ==
  nan_wrapper("mean_absolute_scaled_error_ignoring_nans", given, y_true, y_estimated)

\* ------------------------------------------------------------------ state
VARIABLES
  y_true,           \* the caller's y_true
  y_estimated,      \* the caller's y_estimated
  fn,               \* the function called, "none" before the call
  given,            \* the argument names the caller passed
  y_train,          \* the caller's y_train, Absent when not passed
  seasonal_period,  \* the caller's seasonal_period, 1 (the default) when not passed
  result            \* what the call produced

vars == <<y_true, y_estimated, fn, given, y_train, seasonal_period, result>>

\* Inputs.  A position is a pair (true value, estimate).
PairSamples ==
  { <<Lit(1, 1), Lit(1, 1)>>, <<Lit(3, 1), Lit(1, 1)>>, <<Zero, Lit(1, 1)>>,
    <<Zero, Zero>>, <<NaN, Lit(2, 1)>>, <<Lit(3, 1), NaN>>, <<PosInf, Lit(1, 1)>> }

UnequalSamples == {Lit(1, 1), NaN}

SeqsUpTo(S, n) == UNION {[1..k -> S] : k \in 0..n}

Firsts(ps) == [i \in 1..Len(ps) |-> ps[i][1]]
Seconds(ps) == [i \in 1..Len(ps) |-> ps[i][2]]

Kinds == {"list", "ndarray"}
Wrap(k, s) == [kind |-> k, data |-> s]

\* Equal-length inputs, position by position from ps; unequal-length inputs.
PairedInputs(P) == {<<Firsts(ps), Seconds(ps)>> : ps \in SeqsUpTo(P, MaxLen)}
UnequalInputs(V) ==
  {in \in SeqsUpTo(V, MaxLen) \X SeqsUpTo(V, MaxLen) : Len(in[1]) # Len(in[2])}

Idle ==
  /\ fn = "none" /\ given = {} /\ y_train = Absent /\ seasonal_period = 1
  /\ result = NoCall

Init ==
  /\ \E in \in PairedInputs(PairSamples) \cup UnequalInputs(UnequalSamples),
        kt \in Kinds, ke \in Kinds :
       y_true = Wrap(kt, in[1]) /\ y_estimated = Wrap(ke, in[2])
  /\ Idle

\* A call of a two-argument function f, producing r.
Call2(f, r) ==
  /\ fn = "none"
  /\ fn' = f /\ given' = TwoArgs /\ result' = r
  /\ UNCHANGED <<y_true, y_estimated, y_train, seasonal_period>>

Call_squared_error == Call2("squared_error", squared_error(y_true, y_estimated))
Call_absolute_error == Call2("absolute_error", absolute_error(y_true, y_estimated))
Call_absolute_percentage_error ==
  Call2("absolute_percentage_error", absolute_percentage_error(y_true, y_estimated))
Call_adjusted_absolute_percentage_error ==
  Call2("adjusted_absolute_percentage_error",
        adjusted_absolute_percentage_error(y_true, y_estimated))
Call_mean_squared_error ==
  Call2("mean_squared_error", mean_squared_error(y_true, y_estimated))
Call_mean_absolute_error ==
  Call2("mean_absolute_error", mean_absolute_error(y_true, y_estimated))
Call_mean_absolute_percentage_error ==
  Call2("mean_absolute_percentage_error",
        mean_absolute_percentage_error(y_true, y_estimated))
Call_mean_adjusted_absolute_percentage_error ==
  Call2("mean_adjusted_absolute_percentage_error",
        mean_adjusted_absolute_percentage_error(y_true, y_estimated))
Call_mean_squared_error_ignoring_nans ==
  Call2("mean_squared_error_ignoring_nans",
        mean_squared_error_ignoring_nans(y_true, y_estimated))
Call_mean_absolute_error_ignoring_nans ==
  Call2("mean_absolute_error_ignoring_nans",
        mean_absolute_error_ignoring_nans(y_true, y_estimated))
Call_mean_absolute_percentage_error_ignoring_nans ==
  Call2("mean_absolute_percentage_error_ignoring_nans",
        mean_absolute_percentage_error_ignoring_nans(y_true, y_estimated))
Call_neg_mean_absolute_percentage_error_ignoring_nans ==
  Call2("neg_mean_absolute_percentage_error_ignoring_nans",
        neg_mean_absolute_percentage_error_ignoring_nans(y_true, y_estimated))
Call_mean_adjusted_absolute_percentage_error_ignoring_nans ==
  Call2("mean_adjusted_absolute_percentage_error_ignoring_nans",
        mean_adjusted_absolute_percentage_error_ignoring_nans(y_true, y_estimated))

\* A call of one of the scaled-error functions: y_train drawn from T, the
\* period from M; a caller who leaves seasonal_period out gets the default 1.
ScaledCall(f, g, tr, m, r) ==
  /\ fn = "none"
  /\ fn' = f /\ given' = g /\ y_train' = tr /\ seasonal_period' = m /\ result' = r
  /\ UNCHANGED <<y_true, y_estimated>>

ScaledGiven == {ScaledArgs, ScaledArgs \ {"seasonal_period"}}

Call_absolute_scaled_error(T, M) ==
  \E tr \in T, m \in M, g \in ScaledGiven :
    /\ "seasonal_period" \notin g => m = 1
    /\ ScaledCall("absolute_scaled_error", g, tr, m,
                  absolute_scaled_error(tr, y_true, y_estimated, m))

Call_mean_absolute_scaled_error(T, M) ==
  \E tr \in T, m \in M, g \in ScaledGiven :
    /\ "seasonal_period" \notin g => m = 1
    /\ ScaledCall("mean_absolute_scaled_error", g, tr, m,
                  mean_absolute_scaled_error(tr, y_true, y_estimated, m))

Call_mean_absolute_scaled_error_ignoring_nans(T, M) ==
  \E tr \in T \cup {Absent}, m \in M, g \in ScaledGiven \cup {TwoArgs} :
    /\ "seasonal_period" \notin g => m = 1
    /\ "y_train" \in g <=> tr # Absent
    /\ ScaledCall("mean_absolute_scaled_error_ignoring_nans", g, tr, m,
                  mean_absolute_scaled_error_ignoring_nans(g, tr, y_true, y_estimated, m))

\* Longest seasonal period drawn.
MaxPeriod == 2
Periods == 0..MaxPeriod

TrainSamples ==
  { List(<<Lit(1, 1), Lit(3, 1)>>),
    NdArray(<<Lit(2, 1), Lit(2, 1), Lit(2, 1)>>),
    List(<<Lit(1, 1), NaN, Lit(3, 1), Lit(2, 1)>>) }

Next ==
  \/ Call_squared_error
  \/ Call_absolute_error
  \/ Call_absolute_percentage_error
  \/ Call_adjusted_absolute_percentage_error
  \/ Call_absolute_scaled_error(TrainSamples, Periods)
  \/ Call_mean_squared_error
  \/ Call_mean_absolute_error
  \/ Call_mean_absolute_percentage_error
  \/ Call_mean_adjusted_absolute_percentage_error
  \/ Call_mean_absolute_scaled_error(TrainSamples, Periods)
  \/ Call_mean_squared_error_ignoring_nans
  \/ Call_mean_absolute_error_ignoring_nans
  \/ Call_mean_absolute_percentage_error_ignoring_nans
  \/ Call_neg_mean_absolute_percentage_error_ignoring_nans
  \/ Call_mean_adjusted_absolute_percentage_error_ignoring_nans
  \/ Call_mean_absolute_scaled_error_ignoring_nans({List(<<Lit(1, 1), Lit(3, 1)>>)}, {1, 2})

Spec == Init /\ [][Next]_vars

\* ------------------------------------------- pointwise specification
\* The percentage errors position by position: single positions drawn from a
\* grid of floats that spans the subnormals, the binade of 1.0 and the top
\* binade, with both signs, the infinities and NaN; and two-position inputs.
GridShifts == {0, FracBits - Precision + 1, MaxShift}
GridMagnitudes == {m * (2 ^ t) : m \in 0..(MantLimit - 1), t \in GridShifts}
Grid == {Fin(n) : n \in GridMagnitudes} \cup {Fin(-n) : n \in GridMagnitudes}
          \cup {NaN, PosInf, NegInf}

PercentageSamples ==
  { <<Zero, Lit(1, 1)>>, <<Zero, Zero>>, <<Lit(10, 1), Lit(9, 1)>>,
    <<Lit(-2, 1), Lit(1, 2)>>, <<Zero, NaN>>, <<NaN, Lit(1, 1)>>,
    <<Lit(3, 1), PosInf>>, <<Lit(1, 8), Lit(30, 1)>> }

InitPointwise ==
  /\ \/ \E a \in Grid, b \in Grid :
          y_true = NdArray(<<a>>) /\ y_estimated = NdArray(<<b>>)
     \/ \E p \in PercentageSamples, q \in PercentageSamples, k \in Kinds :
          /\ y_true = Wrap(k, <<p[1], q[1]>>)
          /\ y_estimated = Wrap(k, <<p[2], q[2]>>)
  /\ Idle

NextPointwise ==
  \/ Call_absolute_percentage_error
  \/ Call_adjusted_absolute_percentage_error

SpecPointwise == InitPointwise /\ [][NextPointwise]_vars

\* --------------------------------------------- scaled-error specification
\* The scaled error on training series chosen for their naive forecast: the
\* example of the specification, series whose differences round, a constant
\* series (a zero denominator), values near the top of the range, a NaN.
ScaledSamples ==
  { <<Lit(15, 1), Lit(14, 1)>>, <<Lit(16, 1), Lit(18, 1)>>, <<Lit(1, 1), Lit(1, 1)>>,
    <<Lit(1, 10), Lit(3, 10)>>, <<Lit(5, 4), Lit(-7, 2)>>, <<Lit(15, 1), Lit(-15, 1)>>,
    <<Lit(1, 1), Zero>> }

ScaledTrains ==
  { List(<<Lit(10, 1), Lit(12, 1), Lit(11, 1), Lit(13, 1), Lit(12, 1), Lit(14, 1)>>),
    NdArray(<<Lit(1, 1), Lit(3, 1), Lit(2, 1)>>),
    NdArray(<<Lit(1, 10), Lit(1, 10), Lit(2, 10), Lit(7, 10)>>),
    List(<<Lit(1, 1), Lit(1, 1), Lit(1, 1)>>),
    NdArray(<<Lit(20, 1), Lit(28, 1), Lit(1, 1), Lit(5, 1)>>),
    List(<<Lit(5, 4), Lit(3, 8), Lit(-7, 2), Lit(3, 64)>>),
    NdArray(<<Lit(1, 1), NaN, Lit(2, 1), Lit(4, 1)>>),
    List(<<Lit(3, 256), Lit(5, 256), Lit(1, 32), Zero>>),
    NdArray(<<Zero, Lit(2, 1), Zero, Lit(3, 1)>>),
    List(<<Lit(1, 1), Lit(3, 1)>>) }

InitScaled ==
  /\ \E in \in PairedInputs(ScaledSamples), k \in Kinds :
       y_true = Wrap(k, in[1]) /\ y_estimated = Wrap(k, in[2])
  /\ Idle

NextScaled ==
  \/ Call_absolute_scaled_error(ScaledTrains, Periods)
  \/ Call_mean_absolute_scaled_error(ScaledTrains, Periods)

SpecScaled == InitScaled /\ [][NextScaled]_vars

\* ----------------------------------------------------------------- claims
TrueData == y_true.data
EstData == y_estimated.data
EqualLength == Len(TrueData) = Len(EstData)
Called == fn # "none"

HasNaN(s) == \E i \in 1..Len(s) : IsNaN(s[i])

Pointwise2 ==
  {"squared_error", "absolute_error", "absolute_percentage_error",
   "adjusted_absolute_percentage_error"}
PlainMeans2 ==
  {"mean_squared_error", "mean_absolute_error", "mean_absolute_percentage_error",
   "mean_adjusted_absolute_percentage_error"}
Tolerant2 ==
  {"mean_squared_error_ignoring_nans", "mean_absolute_error_ignoring_nans",
   "mean_absolute_percentage_error_ignoring_nans",
   "neg_mean_absolute_percentage_error_ignoring_nans",
   "mean_adjusted_absolute_percentage_error_ignoring_nans"}

\* The metric a NaN-tolerant function was made from, applied to a and b.
Underlying(f, a, b) ==
  CASE f = "mean_squared_error_ignoring_nans" -> mean_squared_error(a, b)
    [] f = "mean_absolute_error_ignoring_nans" -> mean_absolute_error(a, b)
    [] f = "mean_absolute_percentage_error_ignoring_nans" ->
         mean_absolute_percentage_error(a, b)
    [] f = "neg_mean_absolute_percentage_error_ignoring_nans" ->
         Negated(mean_absolute_percentage_error(a, b))
    [] f = "mean_adjusted_absolute_percentage_error_ignoring_nans" ->
         mean_adjusted_absolute_percentage_error(a, b)

\* The positions where neither side is NaN, and the r-th of them in order.
Kept == {i \in 1..Len(TrueData) : ~IsNaN(TrueData[i]) /\ ~IsNaN(EstData[i])}
NthKept(r) == CHOOSE i \in Kept : Cardinality({j \in Kept : j <= i}) = r
KeptTrue == [r \in 1..Cardinality(Kept) |-> TrueData[NthKept(r)]]
KeptEstimated == [r \in 1..Cardinality(Kept) |-> EstData[NthKept(r)]]

BothArrays == y_true.kind = "ndarray" /\ y_estimated.kind = "ndarray"

\* C1: a function made by nan_ignoring from a two-argument metric f returns,
\* for every pair of equal-length sequences, f of the two subsequences of the
\* positions where neither side is NaN, in their original order.
C1_FilteredPairs ==
  (fn \in Tolerant2 /\ EqualLength) =>
    result = Underlying(fn, NdArray(KeptTrue), NdArray(KeptEstimated))

\* What C1 states does hold when both arguments are numpy arrays.
C1_FilteredPairsOfArrays ==
  (fn \in Tolerant2 /\ EqualLength /\ BothArrays) =>
    result = Underlying(fn, NdArray(KeptTrue), NdArray(KeptEstimated))

\* C2: on equal-length inputs without any NaN each NaN-tolerant mean returns
\* exactly what the plain mean returns on the same inputs.
C2_IdentityWithoutNaN ==
  (/\ fn \in Tolerant2 \ {"neg_mean_absolute_percentage_error_ignoring_nans"}
   /\ EqualLength /\ ~HasNaN(TrueData) /\ ~HasNaN(EstData)) =>
    result = Underlying(fn, y_true, y_estimated)

C2_IdentityWithoutNaNOfArrays ==
  (/\ fn \in Tolerant2 \ {"neg_mean_absolute_percentage_error_ignoring_nans"}
   /\ EqualLength /\ ~HasNaN(TrueData) /\ ~HasNaN(EstData) /\ BothArrays) =>
    result = Underlying(fn, y_true, y_estimated)

\* C3: mean_absolute_scaled_error_ignoring_nans called with y_train, y_true,
\* y_estimated and seasonal_period returns mean_absolute_scaled_error of the
\* unfiltered y_train, the NaN-filtered pairs and the same seasonal_period.
C3_ScaledForwardsTrainAndPeriod ==
  (/\ fn = "mean_absolute_scaled_error_ignoring_nans"
   /\ given = ScaledArgs /\ EqualLength) =>
    result = mean_absolute_scaled_error(y_train, NdArray(KeptTrue),
                                        NdArray(KeptEstimated), seasonal_period)

\* No way of calling it returns: every call ends in a TypeError.
C3_ScaledAlwaysRaises ==
  fn = "mean_absolute_scaled_error_ignoring_nans" =>
    (result.tag = "raise" /\ (BothArrays /\ EqualLength => result.exc = "TypeError"))

\* C10: when every position of an equal-length pair is masked, the tolerant
\* mean calls the underlying mean on two empty sequences and returns NaN
\* (the negated MAPE too) instead of raising.
AllMasked == EqualLength /\ Len(TrueData) >= 1 /\ Kept = {}

C10_AllMaskedIsNaN ==
  (fn \in Tolerant2 /\ AllMasked) => result = Scalar(NaN)

C10_AllMaskedIsNaNOfArrays ==
  (fn \in Tolerant2 /\ AllMasked /\ BothArrays) => result = Scalar(NaN)

\* The pointwise function f, or the one the mean f averages.
PointwiseOf(f, tr, a, b, m) ==
  CASE f \in {"squared_error", "mean_squared_error"} -> squared_error(a, b)
    [] f \in {"absolute_error", "mean_absolute_error"} -> absolute_error(a, b)
    [] f \in {"absolute_percentage_error", "mean_absolute_percentage_error"} ->
         absolute_percentage_error(a, b)
    [] f \in {"adjusted_absolute_percentage_error",
              "mean_adjusted_absolute_percentage_error"} ->
         adjusted_absolute_percentage_error(a, b)
    [] f \in {"absolute_scaled_error", "mean_absolute_scaled_error"} ->
         absolute_scaled_error(tr, a, b, m)

PointwiseAll == Pointwise2 \cup {"absolute_scaled_error"}
PlainMeans == PlainMeans2 \cup {"mean_absolute_scaled_error"}

\* Element i of the pointwise result is what the function gives for the
\* one-element arrays (y_true[i]) and (y_estimated[i]).
AlignedAt(i) ==
  result.arr[i] =
    PointwiseOf(fn, y_train, NdArray(<<TrueData[i]>>), NdArray(<<EstData[i]>>),
                seasonal_period).arr[1]

\* C4: every pointwise function and every mean fails with a shape-mismatch
\* error whenever y_true and y_estimated differ in length, and a pointwise
\* function on inputs of equal length n returns n elements, the i-th computed
\* from y_true[i] and y_estimated[i].
C4_ShapeMismatchFails ==
  (fn \in PointwiseAll \cup PlainMeans /\ seasonal_period >= 1) =>
    /\ ~EqualLength => result = Raise("ValueError")
    /\ (EqualLength /\ fn \in PointwiseAll) =>
         /\ result.tag = "array"
         /\ Len(result.arr) = Len(TrueData)
         /\ \A i \in 1..Len(TrueData) : AlignedAt(i)

\* What does hold: lengths that differ fail unless one of them is 1, which
\* numpy broadcasts against the other; equal lengths are aligned.
C4_MismatchFailsUnlessBroadcast ==
  (fn \in PointwiseAll \cup PlainMeans /\ seasonal_period >= 1) =>
    /\ (~EqualLength /\ Len(TrueData) # 1 /\ Len(EstData) # 1) =>
         result = Raise("ValueError")
    /\ (~EqualLength /\ (Len(TrueData) = 1 \/ Len(EstData) = 1)) =>
         result.tag # "raise"
    /\ (EqualLength /\ fn \in PointwiseAll) =>
         /\ result.tag = "array"
         /\ Len(result.arr) = Len(TrueData)
         /\ \A i \in 1..Len(TrueData) : AlignedAt(i)

\* C5: a plain mean of equal-length, non-empty inputs is NaN as soon as one
\* element of y_true or y_estimated is NaN.
C5_NaNPropagates ==
  (/\ fn \in PlainMeans /\ seasonal_period >= 1
   /\ EqualLength /\ Len(TrueData) >= 1
   /\ (HasNaN(TrueData) \/ HasNaN(EstData))) =>
    result = Scalar(NaN)

\* A mean of two positions, the only NaN in the second estimate.
C5_Witness ==
  /\ fn \in PlainMeans /\ EqualLength /\ Len(TrueData) = 2
  /\ ~IsNaN(TrueData[1]) /\ ~IsNaN(EstData[1]) /\ IsNaN(EstData[2])
  /\ ~IsNaN(TrueData[2])
  /\ result = Scalar(NaN)

\* The comparisons of IEEE 754: every comparison with NaN is false, except
\* that NaN differs from everything.
FEq(x, y) == ~IsNaN(x) /\ ~IsNaN(y) /\ x = y
FNe(x, y) == ~FEq(x, y)
FLt(x, y) ==
  /\ ~IsNaN(x) /\ ~IsNaN(y)
  /\ CASE IsInf(x) /\ IsInf(y) -> x.v < y.v
       [] IsInf(x) -> x.v < 0
       [] IsInf(y) -> y.v > 0
       [] OTHER -> x.v < y.v
FLe(x, y) == FLt(x, y) \/ FEq(x, y)
One == Lit(1, 1)

OppositeSigns(a, b) == (FLt(a, Zero) /\ FLt(Zero, b)) \/ (FLt(b, Zero) /\ FLt(Zero, a))
ExactlyOneZero(a, b) == (FEq(a, Zero) /\ FNe(b, Zero)) \/ (FNe(a, Zero) /\ FEq(b, Zero))

\* What C7 says of one position with values a and b and result r.
AdjustedInUnitInterval(a, b, r) ==
  /\ FLe(Zero, r) /\ FLe(r, One)
  /\ FEq(r, Zero) <=> FEq(a, b)
  /\ (OppositeSigns(a, b) \/ ExactlyOneZero(a, b)) => FEq(r, One)

\* C7: at every position where abs(a[i]) + abs(b[i]) != 0, the adjusted
\* absolute percentage error lies in [0, 1], is 0 exactly when a[i] == b[i],
\* and is 1 when the signs are opposite or exactly one value is 0.
C7_UnitInterval ==
  (fn = "adjusted_absolute_percentage_error" /\ EqualLength) =>
    /\ result.tag = "array"
    /\ \A i \in 1..Len(TrueData) :
         FNe(FAdd(FAbs(TrueData[i]), FAbs(EstData[i])), Zero) =>
           AdjustedInUnitInterval(TrueData[i], EstData[i], result.arr[i])

\* C7 as amended: the same, at every position whose two values are finite and
\* whose abs(a[i]) + abs(b[i]) is finite and not 0.
C7_UnitIntervalFinite ==
  (fn = "adjusted_absolute_percentage_error" /\ EqualLength) =>
    /\ result.tag = "array"
    /\ \A i \in 1..Len(TrueData) :
         LET sum == FAdd(FAbs(TrueData[i]), FAbs(EstData[i]))
         IN (IsFinite(TrueData[i]) /\ IsFinite(EstData[i])
               /\ IsFinite(sum) /\ FNe(sum, Zero)) =>
              AdjustedInUnitInterval(TrueData[i], EstData[i], result.arr[i])

\* Two finite values of opposite signs, and a result of exactly 1.
C7_Witness ==
  /\ fn = "adjusted_absolute_percentage_error" /\ Len(TrueData) = 1
  /\ IsFinite(TrueData[1]) /\ IsFinite(EstData[1])
  /\ TrueData[1].v = -3 * EstData[1].v /\ EstData[1].v > 0
  /\ result = Array(<<One>>)

\* abs((t - e) / t) of two scalars.
PercentageOf(t, e) == FAbs(FDiv(FSub(t, e), t))

\* The example of the specification: ([0, 10], [1, 9]) gives [inf, 0.1].
PercentageExample ==
  (TrueData = <<Zero, Lit(10, 1)>> /\ EstData = <<Lit(1, 1), Lit(9, 1)>>) =>
    result = Array(<<PosInf, Lit(1, 10)>>)

\* C8: absolute_percentage_error never raises on a zero true value: where
\* y_true[i] == 0 the result is +infinity if y_estimated[i] != 0 and NaN if
\* y_estimated[i] == 0; where y_true[i] != 0 it is the finite, non-negative
\* abs((y_true[i] - y_estimated[i]) / y_true[i]); and no position alters
\* another.
C8_ZeroTrueValue ==
  (fn = "absolute_percentage_error" /\ EqualLength) =>
    /\ result.tag = "array" /\ Len(result.arr) = Len(TrueData)
    /\ PercentageExample
    /\ \A i \in 1..Len(TrueData) :
         LET t == TrueData[i]
             e == EstData[i]
             r == result.arr[i]
         IN /\ (FEq(t, Zero) /\ FNe(e, Zero)) => r = PosInf
            /\ (FEq(t, Zero) /\ FEq(e, Zero)) => IsNaN(r)
            /\ FNe(t, Zero) =>
                 (IsFinite(r) /\ FLe(Zero, r) /\ r = PercentageOf(t, e))
            /\ AlignedAt(i)

\* The exact quotient |p| / |d| of two integers is beyond the largest finite
\* float.
Exceeds(p, d) == Abs(p) > MaxFinite * Abs(d)

\* C8 as amended: where y_true[i] == 0 the result is +infinity if
\* y_estimated[i] is neither 0 nor NaN and NaN otherwise; where y_true[i] is
\* finite and not 0 and y_estimated[i] is finite, it is the non-negative
\* abs((y_true[i] - y_estimated[i]) / y_true[i]), never NaN, and infinite only
\* when the exact difference or the quotient is beyond the largest float.
C8_ZeroTrueValueFinite ==
  (fn = "absolute_percentage_error" /\ EqualLength) =>
    /\ result.tag = "array" /\ Len(result.arr) = Len(TrueData)
    /\ PercentageExample
    /\ \A i \in 1..Len(TrueData) :
         LET t == TrueData[i]
             e == EstData[i]
             r == result.arr[i]
         IN /\ (FEq(t, Zero) /\ FNe(e, Zero) /\ ~IsNaN(e)) => r = PosInf
            /\ (FEq(t, Zero) /\ (FEq(e, Zero) \/ IsNaN(e))) => IsNaN(r)
            /\ (IsFinite(t) /\ FNe(t, Zero) /\ IsFinite(e)) =>
                 /\ ~IsNaN(r) /\ FLe(Zero, r) /\ r = PercentageOf(t, e)
                 /\ IsInf(r) =>
                      \/ Exceeds(t.v - e.v, 1)
                      \/ Exceeds(FSub(t, e).v * Unit, t.v)
            /\ AlignedAt(i)

\* The example: a zero true value beside an ordinary position.
C8_Witness ==
  /\ fn = "absolute_percentage_error"
  /\ TrueData = <<Zero, Lit(10, 1)>> /\ EstData = <<Lit(1, 1), Lit(9, 1)>>
  /\ result = Array(<<PosInf, Lit(1, 10)>>)

\* k * a for a scalar k and an array a.
Scaled(k, a) == NdArray([i \in 1..Len(a.data) |-> FMul(k, a.data[i])])

\* The mean absolute error of the naive forecast on y_train.
NaiveForecastError(tr, m) ==
  np_mean(absolute_error(NdArray(SliceFrom(tr.data, m)), NdArray(SliceTo(tr.data, -m))))

Scalars == {Lit(-1, 1), Lit(2, 1), Lit(1, 2), Lit(3, 1), Lit(-4, 1), Lit(1, 10)}

ScaleInvariantFor(k) ==
  mean_absolute_scaled_error(Scaled(k, y_train), Scaled(k, y_true),
                             Scaled(k, y_estimated), seasonal_period) = result

\* C6: for every nonzero scalar k and every y_train whose naive-forecast mean
\* absolute error is not 0, mean_absolute_scaled_error of k*y_train, k*y_true
\* and k*y_estimated equals that of y_train, y_true and y_estimated.
C6_ScaleInvariant ==
  (/\ fn = "mean_absolute_scaled_error" /\ EqualLength /\ seasonal_period >= 1
   /\ FNe(NaiveForecastError(y_train, seasonal_period).val, Zero)) =>
    \A k \in Scalars : ScaleInvariantFor(k)

\* k is a power of two, of either sign.
PowerOfTwo(k) ==
  IsFinite(k) /\ \E j \in 0..(FracBits + MaxShift) : Abs(k.v) = 2 ^ j

\* Finite and above the smallest normal number: a value that was rounded to
\* the full precision.
AboveSmallestNormal(x) == IsFinite(x) /\ Abs(x.v) > 2 ^ (Precision - 1)

AllFinite(r) == r.tag = "array" /\ \A i \in 1..Len(r.arr) : IsFinite(r.arr[i])

\* Multiplying by k loses nothing: every input is finite and its product with
\* k is exact, and in both computations no absolute error overflows and the
\* naive-forecast error neither overflows nor underflows.
ScalesExactly(k) ==
  LET exact(a) == \A i \in 1..Len(a.data) :
                    /\ IsFinite(a.data[i]) /\ IsFinite(FMul(k, a.data[i]))
                    /\ FMul(k, a.data[i]).v * Unit = k.v * a.data[i].v
      naive == NaiveForecastError(y_train, seasonal_period)
      naiveK == NaiveForecastError(Scaled(k, y_train), seasonal_period)
  IN /\ exact(y_train) /\ exact(y_true) /\ exact(y_estimated)
     /\ AllFinite(absolute_error(y_true, y_estimated))
     /\ AllFinite(absolute_error(Scaled(k, y_true), Scaled(k, y_estimated)))
     /\ naive.tag = "scalar" /\ AboveSmallestNormal(naive.val)
     /\ naiveK.tag = "scalar" /\ AboveSmallestNormal(naiveK.val)

\* C6 as amended: the two are equal for every k that is a power of two of
\* either sign (k = -1 among them) whenever scaling by k is exact and nothing
\* overflows or underflows.
C6_ScaleInvariantPowerOfTwo ==
  (/\ fn = "mean_absolute_scaled_error" /\ EqualLength /\ seasonal_period >= 1
   /\ FNe(NaiveForecastError(y_train, seasonal_period).val, Zero)) =>
    \A k \in Scalars : (PowerOfTwo(k) /\ ScalesExactly(k)) => ScaleInvariantFor(k)

\* A scaled error whose naive-forecast error was rounded (the sum of the
\* differences is no multiple of their number), invariant under k = 1/2 and
\* k = -4.
C6_Witness ==
  /\ fn = "mean_absolute_scaled_error" /\ Len(TrueData) = 2
  /\ seasonal_period = 1
  /\ IsFinite(result.val) /\ result.val.v > 0
  /\ ScalesExactly(Lit(1, 2)) /\ ScalesExactly(Lit(-4, 1))
  /\ ScaleInvariantFor(Lit(1, 2)) /\ ScaleInvariantFor(Lit(-4, 1))
  /\ LET diffs == absolute_error(NdArray(SliceFrom(y_train.data, 1)),
                                 NdArray(SliceTo(y_train.data, -1))).arr
     IN SumTo(diffs, Len(diffs)).v % Len(diffs) # 0

\* The sum over j = 1..n of abs(tr[j + m] - tr[j]), left to right.
RECURSIVE LagSum(_, _, _)
LagSum(tr, m, n) ==
  IF n = 0 THEN Zero
  ELSE FAdd(LagSum(tr, m, n - 1), FAbs(FSub(tr[n + m], tr[n])))

\* Its mean over the Len(tr) - m pairs at lag m.
LagMean(tr, m) == FDiv(LagSum(tr, m, Len(tr) - m), Fin((Len(tr) - m) * Unit))

ExampleTrain ==
  <<Lit(10, 1), Lit(12, 1), Lit(11, 1), Lit(13, 1), Lit(12, 1), Lit(14, 1)>>

\* C9: for 1 <= m < len(y_train) the scaled error divides each
\* abs(y_true[i] - y_estimated[i]) by the mean of abs(y_train[j+m] - y_train[j])
\* over the len(y_train) - m pairs at lag m, the two slices having that
\* length; the mean passes the caller's m on; and y_train = [10, 12, 11, 13,
\* 12, 14] with m = 1 gives the denominator 1.6 and, for y_true = [15, 16] and
\* y_estimated = [14, 18], the mean 0.9375.
C9_LaggedDenominator ==
  (/\ fn \in {"absolute_scaled_error", "mean_absolute_scaled_error"}
   /\ EqualLength
   /\ 1 <= seasonal_period /\ seasonal_period < Len(y_train.data)) =>
    LET tr == y_train.data
        m == seasonal_period
        expected == [i \in 1..Len(TrueData) |->
                       FDiv(FAbs(FSub(TrueData[i], EstData[i])), LagMean(tr, m))]
    IN /\ Len(SliceFrom(tr, m)) = Len(tr) - m
       /\ Len(SliceTo(tr, -m)) = Len(tr) - m
       /\ fn = "absolute_scaled_error" => result = Array(expected)
       /\ fn = "mean_absolute_scaled_error" => result = np_mean(Array(expected))
       /\ (tr = ExampleTrain /\ m = 1) =>
            /\ LagMean(tr, m) = Lit(16, 10)
            /\ (/\ fn = "mean_absolute_scaled_error"
                /\ TrueData = <<Lit(15, 1), Lit(16, 1)>>
                /\ EstData = <<Lit(14, 1), Lit(18, 1)>>) =>
                 result = Scalar(Lit(9375, 10000))

\* The example series at the caller's lag 2.
C9_Witness ==
  /\ fn = "mean_absolute_scaled_error" /\ "seasonal_period" \in given
  /\ seasonal_period = 2 /\ y_train.data = ExampleTrain
  /\ TrueData = <<Lit(15, 1), Lit(16, 1)>> /\ EstData = <<Lit(14, 1), Lit(18, 1)>>
  /\ result = Scalar(FDiv(FAdd(FDiv(Lit(1, 1), Lit(1, 1)), FDiv(Lit(2, 1), Lit(1, 1))),
                          Lit(2, 1)))
====
